---------------------------- MODULE Spec2Model ----------------------------
(***************************************************************************)
(* A model of the resilient model-invocation layer of the agents backend:  *)
(*   - LLMRegistry            (src/app/services/llm_registry.py)           *)
(*   - LLMService             (src/app/services/llm_service.py)            *)
(*   - prepare_messages       (src/app/utils/graph.py)                     *)
(*   - the conversation turn  (src/app/core/langgraph/graph.py,            *)
(*                             src/app/schemas/graph.py)                   *)
(*                                                                         *)
(* Spec      : the invocation service (construction, bind_tools, call()    *)
(*             with its retry wrapper and circular fallback).              *)
(* SpecPrep  : the message window preparer, applied to bounded inputs.     *)
(* SpecRegistry : LLMRegistry.get and get_all_names on bounded inputs.     *)
(* SpecTurn  : the turn state machine with its checkpoints and its         *)
(*             thread-scoped mutual exclusion.  The repository holds the   *)
(*             state schema, the tool table and a chat node that is        *)
(*             commented out; the rest of the machine follows sections     *)
(*             4.4, 4.5 and 5 of the design.                               *)
(***************************************************************************)
EXTENDS Integers, Sequences, FiniteSets, TLC

VARIABLES
    settings,              \* app.core.config.settings: DEFAULT_LLM_PROVIDER / DEFAULT_LLM_MODEL
    current_model_index,   \* LLMService._current_model_index (0-based, as in the code)
    llm,                   \* LLMService._llm: the live handle
    pc,                    \* position of the call() coroutine: "idle" | "await" | "done"
    req,                   \* the (model_provider, model_name) arguments of the running call
    models_tried,          \* local of call()
    starting_index,        \* local of call()
    last_error,            \* local of call()
    attempt,               \* tenacity's attempt number inside the running _call_with_retry
    rounds,                \* log of this call: per _call_with_retry, the handle called and the attempts made
    allTransient,          \* log of this call: every failed attempt so far was a transient error
    retriedNT,             \* log of this call: an attempt was issued after a non-transient error on the same model
    nSwitch,               \* "Switching_to_next_model" log events of this call
    nAllFailed,            \* "all_models_failed" log events of this call
    result,                \* what call() returned or raised
    prepIn,                \* arguments of the last prepare_messages invocation
    prepOut,               \* what that invocation returned or raised
    flow,                  \* per request flow: the phase of its turn and its in-memory GraphState
    checkpoint,            \* the checkpoint store: per thread id, the last state saved
    lock,                  \* per thread id, the flow that holds the thread's mutual exclusion
    executed,              \* per thread id, how often each tool call was executed
    crashes,               \* process restarts so far
    listed,                \* what the last LLMRegistry.get_all_names returned or raised
    invocation             \* per concurrent caller of the shared service: the locals and the log of its call()

svcVars == <<settings, current_model_index, llm, pc, req, models_tried,
             starting_index, last_error, attempt, rounds, allTransient, retriedNT,
             nSwitch, nAllFailed, result>>
vars == <<settings, current_model_index, llm, pc, req, models_tried,
          starting_index, last_error, attempt, rounds, allTransient, retriedNT,
          nSwitch, nAllFailed, result,
          prepIn, prepOut,
          flow, checkpoint, lock, executed, crashes,
          listed, invocation>>
turnVars == <<flow, checkpoint, lock, executed, crashes>>

----------------------------------------------------------------------------
(* Bounds and configuration                                                *)

\* settings.MAX_LLM_CALL_RETRIES: tenacity's stop_after_attempt(K).  The value
\* is configuration; the model is checked for this K.
MAX_LLM_CALL_RETRIES == 3

\* Longest conversation history given to prepare_messages.
MaxHist == 4

\* Largest settings.MAX_TOKENS given to prepare_messages (budgets 0..MaxBudget).
MaxBudget == 4

----------------------------------------------------------------------------
(* LLMRegistry                                                             *)

\* LLMRegistry.LLMS: provider -> ordered entries; an entry is modelled by its
\* "name" (the "llm" of the entry is the handle EntryLlm below).
LLMS ==
    [ groq   |-> << "qwen/qwen3-32b", "moonshotai/kimi-k2-instruct-0905",
                    "openai/gpt-oss-120b", "openai/gpt-oss-20b" >>,
      openai |-> << "gpt-5-mini", "gpt-4o", "gpt-4o-mini" >>,
      gemini |-> << >> ]

Keys == DOMAIN LLMS

\* str.lower() on the provider strings the model uses.
Lower(s) == IF s = "Groq" THEN "groq" ELSE s

\* entry["llm"] of the entry at 0-based position i of provider p: a client
\* object of the registry, to which no tools are bound.
EntryLlm(p, i) == [prov |-> p, name |-> LLMS[p][i + 1], tools |-> FALSE]

\* The absence of a handle (a get that raised returns none).
NoLlm == [prov |-> "", name |-> "", tools |-> FALSE]

\* list.index(name): 0-based position of the first occurrence, -1 for the
\* ValueError list.index raises when the name is absent.
IndexOf(names, name) ==
    IF \E i \in 1..Len(names) : names[i] = name
    THEN (CHOOSE i \in 1..Len(names) :
             names[i] = name /\ \A j \in 1..(i - 1) : names[j] # name) - 1
    ELSE -1

\* LLMRegistry.get_all_names(llm_provider) with a provider given:
\* cls.LLMS.get(llm_provider.lower(), []) projected on the names.
get_all_names(p) == IF Lower(p) \in Keys THEN LLMS[Lower(p)] ELSE << >>

\* LLMRegistry.get(llm_provider, model_name): the outcome as a record.
\*   ValueError  - line 154 (provider check on the lowered string) or line 164
\*   KeyError    - line 157: cls.LLMS[llm_provider] subscripts with the string
\*                 as given, not lowered
\*   ok          - line 171, the entry's llm
get(p, name) ==
    IF Lower(p) \notin Keys THEN [kind |-> "ValueError", llm |-> NoLlm]
    ELSE IF p \notin Keys THEN [kind |-> "KeyError", llm |-> NoLlm]
    ELSE IF IndexOf(LLMS[p], name) = -1 THEN [kind |-> "ValueError", llm |-> NoLlm]
    ELSE [kind |-> "ok", llm |-> EntryLlm(p, IndexOf(LLMS[p], name))]

----------------------------------------------------------------------------
(* Exceptions raised by a model call                                       *)

\* The exception classes the awaited ainvoke raises in the model: a 429, a
\* 401 and an OpenAIError that is no APIError.  Any handle may raise any of
\* them; an exception of a class outside the openai package is handled as
\* the last kind is (not retried, caught by "except Exception" in call()).
ErrorKinds == {"RateLimitError", "AuthenticationError", "OpenAIError"}

\* The classes an exception of each kind is an instance of (the openai
\* package imported at llm_service.py line 5: RateLimitError and
\* AuthenticationError derive from APIStatusError, which derives from
\* APIError, which derives from OpenAIError).
Bases(kind) ==
    CASE kind = "RateLimitError" ->
            {"RateLimitError", "APIStatusError", "APIError", "OpenAIError"}
      [] kind = "AuthenticationError" ->
            {"AuthenticationError", "APIStatusError", "APIError", "OpenAIError"}
      [] OTHER -> {"OpenAIError"}

\* The tuple given to retry_if_exception_type.
RetryTypes == {"RateLimitError", "APITimeoutError", "APIError"}

\* retry_if_exception_type((RateLimitError, APITimeoutError, APIError)):
\* isinstance of the raised exception against the tuple.
retry_if_exception_type(kind) == Bases(kind) \cap RetryTypes # {}

stop_after_attempt_OneMore(n) == n > MAX_LLM_CALL_RETRIES

\* stop_after_attempt(settings.MAX_LLM_CALL_RETRIES): stop once the attempt
\* number has reached the cap.
stop_after_attempt(n) == n >= MAX_LLM_CALL_RETRIES


----------------------------------------------------------------------------
(* Message and prepare_messages                                            *)

\* Message.content: Field(min_length=1, max_length=3000)
MinContentLen == 1
MaxContentLen == 3000

\* The system prompts of the model: the empty string, a short prompt, a
\* prompt of exactly 3000 characters, one of 3001, one holding a script tag.
PromptInputs == {"", "be brief", "<3000 chars>", "<3001 chars>", "<script>x</script>"}

\* len(content) of the strings of the model.
StrLen(c) ==
    CASE c = "" -> 0
      [] c = "<3000 chars>" -> 3000
      [] c = "<3001 chars>" -> 3001
      [] c = "<script>x</script>" -> 18
      [] OTHER -> 8

\* validate_content: re.search(r"<script.*?>.*?</script>", v, IGNORECASE | DOTALL)
HasScriptTag(c) == c = "<script>x</script>"

\* Message(role=..., content=...): whether pydantic accepts the content.
ValidContent(c) ==
    /\ StrLen(c) >= MinContentLen
    /\ StrLen(c) <= MaxContentLen
    /\ ~HasScriptTag(c)

\* The messages a history of the model is made of; the roles are those of
\* Message.role: Literal["user", "assistant", "system"].
HistMessages ==
    { [role |-> "user", content |-> "hi"],
      [role |-> "user", content |-> "tell me more"],
      [role |-> "assistant", content |-> "sure, here it is"],
      [role |-> "system", content |-> "note"] }

\* token_counter=llm: the tokens the injected counter charges for a message.
Tokens(m) ==
    CASE m.content = "hi" -> 1
      [] m.content = "note" -> 1
      [] m.content = "tell me more" -> 2
      [] m.content = "sure, here it is" -> 2
      [] m.content = "be brief" -> 2
      [] m.content = "" -> 0
      [] OTHER -> MaxBudget + 1

\* The counter on a list of messages.
RECURSIVE CountTokens(_)
CountTokens(msgs) ==
    IF msgs = << >> THEN 0 ELSE Tokens(Head(msgs)) + CountTokens(Tail(msgs))

\* The last n messages of a list.
LastN(msgs, n) == SubSeq(msgs, Len(msgs) - n + 1, Len(msgs))

FitLen_CrossingIncluded(msgs, max_tokens) ==
    CHOOSE n \in 0..Len(msgs) :
        /\ n = Len(msgs) \/ CountTokens(LastN(msgs, n)) > max_tokens
        /\ \A k \in 0..(n - 1) : CountTokens(LastN(msgs, k)) <= max_tokens

\* strategy="last", allow_partial=False: the number of trailing whole
\* messages kept, the most whose count is within max_tokens.
FitLen(msgs, max_tokens) ==
    CHOOSE n \in 0..Len(msgs) :
        /\ CountTokens(LastN(msgs, n)) <= max_tokens
        /\ \A k \in (n + 1)..Len(msgs) : CountTokens(LastN(msgs, k)) > max_tokens

StartOnHuman_Ignored(msgs) == msgs

\* start_on="human": leading messages that are not human are dropped.
RECURSIVE StartOnHuman(_)
StartOnHuman(msgs) ==
    IF msgs = << >> \/ Head(msgs).role = "user" THEN msgs
    ELSE StartOnHuman(Tail(msgs))

\* _trim_messages(dump_messages(messages), strategy="last", token_counter=llm,
\*     max_tokens=..., start_on="human", include_system=False, allow_partial=False)
\* when the counter does not raise.
trim_messages(msgs, max_tokens) == StartOnHuman(LastN(msgs, FitLen(msgs, max_tokens)))

\* What the injected counter does when it is asked: count, raise the
\* ValueError langchain raises on a content block it does not know, or raise
\* another ValueError.
CounterModes == {"counts", "ValueError: Unrecognized content block type",
                 "ValueError: other"}

NoPrepIn == [messages |-> << >>, system_prompt |-> "be brief", max_tokens |-> 0,
             counter |-> "counts"]
NoPrepOut == [kind |-> "none", window |-> << >>]

\* Whether the counter raises inside _trim_messages: an empty list is
\* returned before anything is counted.
CountingRaises(in) == in.messages # << >> /\ in.counter # "counts"

Trimmed_FallbackEmpty(in) ==
    IF ~CountingRaises(in)
    THEN [kind |-> "ok", window |-> trim_messages(in.messages, in.max_tokens)]
    ELSE IF in.counter = "ValueError: Unrecognized content block type"
    THEN [kind |-> "ok", window |-> << >>]
    ELSE [kind |-> "ValueError", window |-> << >>]

\* prepare_messages, lines 27-49: trimmed_messages, or the exception that
\* leaves the function.
Trimmed(in) ==
    IF ~CountingRaises(in)
    THEN [kind |-> "ok", window |-> trim_messages(in.messages, in.max_tokens)]
    ELSE IF in.counter = "ValueError: Unrecognized content block type"
    THEN [kind |-> "ok", window |-> in.messages]
    ELSE [kind |-> "ValueError", window |-> << >>]

\* prepare_messages: the returned list, or the exception raised.  Line 51
\* constructs Message(role="system", content=system_prompt), which pydantic
\* validates.
prepare_messages(in) ==
    IF Trimmed(in).kind # "ok" THEN Trimmed(in)
    ELSE IF ~ValidContent(in.system_prompt)
    THEN [kind |-> "ValidationError", window |-> << >>]
    ELSE [kind |-> "ok",
          window |-> << [role |-> "system", content |-> in.system_prompt] >>
                     \o Trimmed(in).window]

\* The histories of the model.
Histories == UNION { [1..n -> HistMessages] : n \in 0..MaxHist }

PrepInputs ==
    [messages : Histories, system_prompt : PromptInputs,
     max_tokens : 0..MaxBudget, counter : CounterModes]

----------------------------------------------------------------------------
(* The conversation turn: state, checkpoints, mutual exclusion             *)

\* The configured cap on tool-call rounds per turn ("max tool-call rounds
\* per turn" of the configuration surface).
MaxToolRounds == 1

\* Process restarts considered.
MaxCrashes == 1

\* Thread ids, and the request flows: each flow serves one chat request;
\* flows a and b are requests for the same thread, c for another.
Threads == {"t1", "t2"}
Flows == {"a", "b", "c"}
ThreadOf(f) == IF f = "c" THEN "t2" ELSE "t1"

\* self.tools_by_name = {tool.name: tool for tool in tools}: the names.
tools_by_name == {"search"}

\* response_message.tool_calls of the responses the model gives: the names
\* of the requested tools, in order.
Responses ==
    { << >>, <<"search", "search">>, <<"search", "no_such_tool">> }

\* The call id of the n-th request of the response with message id "at".
NoCall == [at |-> 0, n |-> 0]
CallId(id, n) == [at |-> id, n |-> n]

\* Messages as GraphState.messages holds them; ids are unique per thread
\* (the id a message gets is its position when it is created).
UserMessage(id) ==
    [id |-> id, role |-> "user", tool_calls |-> << >>, tool_call_id |-> NoCall]
AIMessage(id, calls) ==
    [id |-> id, role |-> "assistant", tool_calls |-> calls, tool_call_id |-> NoCall]
ToolMessage(id, c) ==
    [id |-> id, role |-> "tool", tool_calls |-> << >>, tool_call_id |-> c]

RECURSIVE add_messages_Overwrite(_, _)
add_messages_Overwrite(left, right) ==
    IF right = << >> THEN left
    ELSE IF left # << >>
    THEN add_messages_Overwrite([left EXCEPT ![Len(left)] = Head(right)], Tail(right))
    ELSE add_messages_Overwrite(Append(left, Head(right)), Tail(right))

\* GraphState.messages: Annotated[list, add_messages].  The reducer merges
\* the update into the list: a message whose id is already in the list
\* takes that message's place, any other message is appended.
RECURSIVE add_messages(_, _)
add_messages(left, right) ==
    IF right = << >> THEN left
    ELSE IF \E i \in 1..Len(left) : left[i].id = Head(right).id
    THEN add_messages(
             [left EXCEPT ![CHOOSE i \in 1..Len(left) : left[i].id = Head(right).id]
                              = Head(right)],
             Tail(right))
    ELSE add_messages(Append(left, Head(right)), Tail(right))

\* A flow before its turn begins, and the store before a thread is saved.
\* "resumed" notes, while a turn runs, the checkpointed state it was resumed
\* in ("no" for a turn begun on a new user message).
NoFlow == [phase |-> "NEW", messages |-> << >>, nDone |-> 0, rounds |-> 0,
           error |-> "none", resumed |-> "no"]
NotFound == [state |-> "NotFound", messages |-> << >>, rounds |-> 0]

\* A flow whose turn failed: the failure is returned with its kind; the
\* state in memory is given up (what is kept is what the store holds).
Failed(kind) == [NoFlow EXCEPT !.phase = "FAILED", !.error = kind]

\* The phases in which a flow runs a turn.
Running == {"AWAITING_MODEL", "AWAITING_TOOL"}

\* No get_all_names call made yet.
NoListed == [kind |-> "none", names |-> << >>]

\* The coroutines that run llm_service.call() concurrently on the one
\* module-level LLMService instance.
Callers == {"c1", "c2"}

\* The except block of call() not yet entered: no model recorded as failed.
NoFailed == [called |-> "", recorded |-> ""]

\* A caller that has not invoked call().
NoInvocation ==
    [pc |-> "idle", models_tried |-> 0, attempt |-> 0, called |-> << >>,
     attempted |-> {}, failed |-> NoFailed, result |-> "none"]

InitTurnVars ==
    /\ flow = [f \in Flows |-> NoFlow]
    /\ checkpoint = [t \in Threads |-> NotFound]
    /\ lock = [t \in Threads |-> "free"]
    /\ executed = [t \in Threads |-> {}]
    /\ crashes = 0
    /\ listed = NoListed
    /\ invocation = [c \in Callers |-> NoInvocation]

----------------------------------------------------------------------------
(* LLMService                                                              *)

NoResult == [kind |-> "none", by |-> NoLlm, tried |-> 0, last |-> "none"]

\* A log record of one _call_with_retry invocation: the handle it calls and
\* the number of ainvoke calls issued on it.
NewRound(h) == [model |-> h, attempts |-> 1]

InitIndex_NeverSet(s) == 0

\* __init__: the index of the default model, 0 when get() raised.
InitIndex(s) ==
    IF get(s.provider, s.model).kind = "ok"
    THEN IndexOf(get_all_names(s.provider), s.model)
    ELSE 0

\* __init__: the handle of the default model, the provider's first entry
\* when get() raised.
InitLlm(s) ==
    IF get(s.provider, s.model).kind = "ok"
    THEN get(s.provider, s.model).llm
    ELSE EntryLlm(s.provider, 0)

\* Configurations under which the module-level LLMService() constructs: the
\* provider has at least one entry (LLMS[provider][0] exists).
DefaultProviders == {p \in Keys : Len(LLMS[p]) > 0}
DefaultModels == {"moonshotai/kimi-k2-instruct-0905", "gpt-4o-mini"}

\* len(LLMRegistry.LLMS[settings.DEFAULT_LLM_PROVIDER])
total_models == Len(LLMS[settings.provider])

NextIndex_SkipOne(i) == (i + 2) % total_models

NextIndex_Stay(i) == i % total_models

\* _switch_to_next_model: next_index
NextIndex(i) == (i + 1) % total_models

AllTried_LateBreak(tried) == tried > total_models

\* call(): "if models_tried >= total_models" (line 177)
AllTried(tried) == tried >= total_models

\* call(): "while models_tried < total_models" (line 158)
LoopGuard(tried) == tried < total_models

\* call(): "if model_provider and model_name" (empty strings are falsy)
HasOverride(p, m) == p # "" /\ m # ""

\* call(), lines 141-145: the index after a successful get of the override.
OverrideIndex(p, m, old) ==
    IF IndexOf(get_all_names(p), m) # -1 THEN IndexOf(get_all_names(p), m) ELSE old

Init ==
    /\ settings \in [provider : DefaultProviders, model : DefaultModels]
    /\ current_model_index = InitIndex(settings)
    /\ llm = InitLlm(settings)
    /\ pc = "idle"
    /\ req = [provider |-> "", model |-> ""]
    /\ models_tried = 0
    /\ starting_index = 0
    /\ last_error = "none"
    /\ attempt = 0
    /\ rounds = << >>
    /\ allTransient = TRUE
    /\ retriedNT = FALSE
    /\ nSwitch = 0
    /\ nAllFailed = 0
    /\ result = NoResult
    /\ prepIn = NoPrepIn
    /\ prepOut = NoPrepOut
    /\ InitTurnVars

\* bind_tools(tools): binds the current handle when it is a BaseChatModel; a
\* handle with tools bound is a Runnable binding, not a BaseChatModel.
BindTools ==
    /\ pc \in {"idle", "done"}
    /\ ~llm.tools
    /\ llm' = [llm EXCEPT !.tools = TRUE]
    /\ UNCHANGED <<settings, current_model_index, pc, req, models_tried,
                   starting_index, last_error, attempt, rounds, allTransient,
                   retriedNT, nSwitch, nAllFailed, result, prepIn, prepOut>>
    /\ UNCHANGED <<turnVars, listed, invocation>>

\* The (model_provider, model_name) pairs callers pass; ("", "") is a call
\* without override.
OverrideInputs ==
    { <<"", "">>,
      <<"groq", "moonshotai/kimi-k2-instruct-0905">>,
      <<"groq", "openai/gpt-oss-20b">>,
      <<"openai", "gpt-4o">>,
      <<"openai", "no-such-model">>,
      <<"gemini", "gpt-4o">>,
      <<"azure", "gpt-4o">>,
      <<"Groq", "qwen/qwen3-32b">>,
      <<"Groq", "no-such-model">> }

\* call(), lines 137-161: the override, the locals, and the first pass of
\* the while loop up to the awaited ainvoke of _call_with_retry.
Call(p, m) ==
    /\ pc \in {"idle", "done"}
    /\ req' = [provider |-> p, model |-> m]
    /\ models_tried' = 0
    /\ last_error' = "none"
    /\ nSwitch' = 0
    /\ nAllFailed' = 0
    /\ allTransient' = TRUE
    /\ retriedNT' = FALSE
    /\ IF HasOverride(p, m) /\ get(p, m).kind # "ok"
       THEN \* get() raised: ValueError is logged and re-raised, KeyError propagates
            /\ pc' = "done"
            /\ result' = [NoResult EXCEPT !.kind = get(p, m).kind]
            /\ rounds' = << >>
            /\ attempt' = 0
            /\ UNCHANGED <<current_model_index, llm, starting_index>>
       ELSE /\ llm' = IF HasOverride(p, m) THEN get(p, m).llm ELSE llm
            /\ current_model_index' =
                  IF HasOverride(p, m)
                  THEN OverrideIndex(p, m, current_model_index)
                  ELSE current_model_index
            /\ starting_index' = current_model_index'
            /\ rounds' = << NewRound(llm') >>
            /\ attempt' = 1
            /\ result' = NoResult
            /\ pc' = "await"
    /\ UNCHANGED <<settings, prepIn, prepOut>>
    /\ UNCHANGED <<turnVars, listed, invocation>>

\* _call_with_retry: the awaited self._llm.ainvoke(messages) returns; call()
\* returns the response.
AttemptOk ==
    /\ pc = "await"
    /\ result' = [NoResult EXCEPT !.kind = "response", !.by = llm]
    /\ pc' = "done"
    /\ UNCHANGED <<settings, current_model_index, llm, req, models_tried,
                   starting_index, last_error, attempt, rounds, allTransient,
                   retriedNT, nSwitch, nAllFailed, prepIn, prepOut>>
    /\ UNCHANGED <<turnVars, listed, invocation>>

\* tenacity: the attempt raised an exception of this kind; it is retried when
\* the retry predicate accepts it and the stop condition does not hold.
Retries(kind, n) == retry_if_exception_type(kind) /\ ~stop_after_attempt(n)

\* The spec's error classification: rate limit, timeout and upstream 5xx
\* are transient; an authentication or request error is not.
Transient(kind) == kind = "RateLimitError"

\* _call_with_retry: the awaited ainvoke raises and tenacity sleeps and
\* issues the next attempt.
AttemptRetry(kind) ==
    /\ pc = "await"
    /\ Retries(kind, attempt)
    /\ attempt' = attempt + 1
    /\ rounds' = [rounds EXCEPT ![Len(rounds)].attempts = @ + 1]
    /\ allTransient' = (allTransient /\ Transient(kind))
    /\ retriedNT' = (retriedNT \/ ~Transient(kind))
    /\ UNCHANGED <<settings, current_model_index, llm, pc, req, models_tried,
                   starting_index, last_error, nSwitch, nAllFailed, result,
                   prepIn, prepOut>>
    /\ UNCHANGED <<turnVars, listed, invocation>>

\* _call_with_retry re-raises (reraise=True) and the except block of call()
\* runs (lines 164-187), then the loop test, then the next _call_with_retry
\* up to its awaited ainvoke.
AttemptRaise(kind) ==
    /\ pc = "await"
    /\ ~Retries(kind, attempt)
    /\ last_error' = kind
    /\ models_tried' = models_tried + 1
    /\ allTransient' = (allTransient /\ Transient(kind))
    /\ IF current_model_index >= total_models
       THEN \* line 168: LLMS[provider][self._current_model_index] raises
            /\ result' = [NoResult EXCEPT !.kind = "IndexError",
                                          !.tried = models_tried', !.last = kind]
            /\ pc' = "done"
            /\ UNCHANGED <<current_model_index, llm, attempt, rounds, nSwitch,
                           nAllFailed>>
       ELSE IF AllTried(models_tried')
       THEN \* lines 177-182 and 189: break, raise RuntimeError
            /\ nAllFailed' = nAllFailed + 1
            /\ result' = [NoResult EXCEPT !.kind = "RuntimeError",
                                          !.tried = models_tried', !.last = kind]
            /\ pc' = "done"
            /\ UNCHANGED <<current_model_index, llm, attempt, rounds, nSwitch>>
       ELSE \* line 185: _switch_to_next_model, then the loop continues
            /\ current_model_index' = NextIndex(current_model_index)
            /\ llm' = EntryLlm(settings.provider, NextIndex(current_model_index))
            /\ nSwitch' = nSwitch + 1
            /\ IF LoopGuard(models_tried')
               THEN /\ rounds' = Append(rounds, NewRound(llm'))
                    /\ attempt' = 1
                    /\ UNCHANGED <<pc, result>>
               ELSE \* the loop ends without a break: line 189
                    /\ result' = [NoResult EXCEPT !.kind = "RuntimeError",
                                                  !.tried = models_tried',
                                                  !.last = kind]
                    /\ pc' = "done"
                    /\ UNCHANGED <<rounds, attempt>>
            /\ UNCHANGED nAllFailed
    /\ UNCHANGED <<settings, req, starting_index, retriedNT, prepIn, prepOut>>
    /\ UNCHANGED <<turnVars, listed, invocation>>

Next ==
    \/ BindTools
    \/ \E o \in OverrideInputs : Call(o[1], o[2])
    \/ AttemptOk
    \/ \E kind \in ErrorKinds : AttemptRetry(kind)
    \/ \E kind \in ErrorKinds : AttemptRaise(kind)

Spec == Init /\ [][Next]_vars

----------------------------------------------------------------------------
(* Properties of the invocation service (checked under Spec)               *)

Done == pc = "done"

\* The handle of the entry at 0-based position i of the configured provider.
ConfiguredLlm(i) == EntryLlm(settings.provider, i)

\* C1 as stated: when every attempt on every model failed with a transient
\* error, the finished invocation made exactly N fallback switches and
\* logged exactly one exhaustion.
C1_NSwitchesAtExhaustion ==
    (Done /\ result.kind = "RuntimeError" /\ allTransient)
        => (nSwitch = total_models /\ nAllFailed = 1)

\* C1 amended: an invocation in which every attempt failed with a transient
\* error and that ends with the all-models-exhausted RuntimeError has tried
\* N models, made exactly N - 1 fallback switches (none after the last
\* model failed) and logged the exhaustion exactly once; no invocation makes
\* N switches or logs a second exhaustion.
C1_SwitchesAtExhaustion ==
    /\ nSwitch < total_models
    /\ nAllFailed <= 1
    /\ (Done /\ result.kind = "RuntimeError" /\ allTransient)
          => /\ nSwitch = total_models - 1
             /\ nAllFailed = 1
             /\ models_tried = total_models
             /\ result.tried = total_models
             /\ Len(rounds) = total_models

C1_Witness ==
    /\ Done /\ result.kind = "RuntimeError" /\ allTransient
    /\ \A i \in 1..Len(rounds) : rounds[i].attempts = MAX_LLM_CALL_RETRIES

\* C2 as stated: no attempt is issued on a model after that model raised an
\* error that is not transient.
C2_NonTransientNeverRetried == ~retriedNT

\* C3: when the invocation returns after a fallback from a model whose
\* _call_with_retry ended on a non-transient error, the response is that of
\* the circularly next entry of the configured provider, and the failed
\* model was attempted at most MAX_LLM_CALL_RETRIES times.
C3_NextModelAnswers ==
    (Done /\ result.kind = "response" /\ Len(rounds) >= 2 /\ ~Transient(last_error))
        => /\ result.by = rounds[Len(rounds)].model
           /\ result.by =
                 ConfiguredLlm((starting_index + Len(rounds) - 1) % total_models)
           /\ rounds[Len(rounds) - 1].attempts <= MAX_LLM_CALL_RETRIES

C3_Witness ==
    /\ Done /\ result.kind = "response" /\ Len(rounds) = 2
    /\ last_error = "OpenAIError"
    /\ rounds[1].attempts = 1

\* C4: when the first model failed on MAX_LLM_CALL_RETRIES attempts, all of
\* them transient errors, and the next model answered on its first attempt,
\* the response is the next model's, exactly one switch was made, and the
\* first model got exactly MAX_LLM_CALL_RETRIES attempts.
C4_RetryThenFallback ==
    (/\ Done /\ result.kind = "response"
     /\ Len(rounds) = 2 /\ allTransient
     /\ rounds[1].attempts >= MAX_LLM_CALL_RETRIES
     /\ rounds[2].attempts = 1)
        => /\ rounds[1].attempts = MAX_LLM_CALL_RETRIES
           /\ nSwitch = 1
           /\ models_tried = 1
           /\ last_error = "RateLimitError"
           /\ result.by = rounds[2].model
           /\ result.by = ConfiguredLlm((starting_index + 1) % total_models)

C4_Witness ==
    /\ Done /\ result.kind = "response"
    /\ Len(rounds) = 2 /\ allTransient
    /\ rounds[1].attempts = MAX_LLM_CALL_RETRIES
    /\ rounds[2].attempts = 1
    /\ nSwitch = 1

\* C5 as stated: an invocation that entered the retry/fallback loop ends by
\* returning a response or by the all-models-exhausted RuntimeError with the
\* tried-count at N and the last error; the tried-count never exceeds N and
\* no handle is tried in two rounds.
C5_ReturnsOrExhausts ==
    /\ models_tried <= total_models
    /\ \A i, j \in 1..Len(rounds) : rounds[i].model = rounds[j].model => i = j
    /\ (Done /\ rounds # << >>)
          => \/ result.kind = "response"
             \/ /\ result.kind = "RuntimeError"
                /\ result.tried = total_models
                /\ result.last = last_error

\* Whether an override pair names no entry of the registry, the provider
\* taken as the registry's check takes it (lowered).
UnknownOverride(r) ==
    \/ Lower(r.provider) \notin Keys
    \/ IndexOf(LLMS[Lower(r.provider)], r.model) = -1

\* C6 as stated: a call whose override names no entry of the registry ends
\* with the ValueError of LLMRegistry.get before any attempt is made.
C6_UnknownOverrideNotFound ==
    (Done /\ HasOverride(req.provider, req.model) /\ UnknownOverride(req))
        => (result.kind = "ValueError" /\ rounds = << >> /\ models_tried = 0)

\* C7 as stated: with an override that exists in the registry, the first
\* attempt goes to the requested model and a fallback from it goes to the
\* entry that follows it in the requested provider's sequence.
C7_OverrideThenFollowsRequested ==
    (/\ HasOverride(req.provider, req.model)
     /\ req.provider \in Keys
     /\ IndexOf(LLMS[req.provider], req.model) # -1
     /\ rounds # << >>)
        => /\ rounds[1].model =
                 EntryLlm(req.provider, IndexOf(LLMS[req.provider], req.model))
           /\ Len(rounds) >= 2 =>
                 rounds[2].model =
                    EntryLlm(req.provider,
                             (IndexOf(LLMS[req.provider], req.model) + 1)
                                 % Len(LLMS[req.provider]))

----------------------------------------------------------------------------
(* The message window preparer on bounded inputs                           *)

InitPrep ==
    /\ settings = [provider |-> "groq", model |-> "moonshotai/kimi-k2-instruct-0905"]
    /\ current_model_index = InitIndex(settings)
    /\ llm = InitLlm(settings)
    /\ pc = "idle"
    /\ req = [provider |-> "", model |-> ""]
    /\ models_tried = 0
    /\ starting_index = 0
    /\ last_error = "none"
    /\ attempt = 0
    /\ rounds = << >>
    /\ allTransient = TRUE
    /\ retriedNT = FALSE
    /\ nSwitch = 0
    /\ nAllFailed = 0
    /\ result = NoResult
    /\ prepIn \in PrepInputs
    /\ prepOut = NoPrepOut
    /\ InitTurnVars

\* One invocation prepare_messages(messages, llm, system_prompt).
PrepareMessages ==
    /\ prepOut.kind = "none"
    /\ prepOut' = prepare_messages(prepIn)
    /\ UNCHANGED <<prepIn, svcVars>>
    /\ UNCHANGED <<turnVars, listed, invocation>>

NextPrep == PrepareMessages

SpecPrep == InitPrep /\ [][NextPrep]_vars

----------------------------------------------------------------------------
(* Properties of prepare_messages (checked under SpecPrep)                 *)

\* The part of a returned window after the prepended system prompt.
AfterPrompt == Tail(prepOut.window)

\* The lengths of the suffixes of a history that are within the budget and
\* are empty or begin on a user message.
UserSuffixLens(msgs, max_tokens) ==
    { n \in 0..Len(msgs) :
        /\ CountTokens(LastN(msgs, n)) <= max_tokens
        /\ n = 0 \/ msgs[Len(msgs) - n + 1].role = "user" }

\* The longest such suffix.
LongestUserSuffix(msgs, max_tokens) ==
    LastN(msgs, CHOOSE n \in UserSuffixLens(msgs, max_tokens) :
                   \A k \in UserSuffixLens(msgs, max_tokens) : k <= n)

\* C8: a returned window, without its system prompt, is within the budget by
\* the counter, or is the whole history after the counter raised.
C8_WithinBudgetOrUntrimmed ==
    prepOut.kind = "ok"
        => \/ CountTokens(AfterPrompt) <= prepIn.max_tokens
           \/ /\ prepIn.counter # "counts"
              /\ AfterPrompt = prepIn.messages

C8_Witness ==
    /\ prepOut.kind = "ok"
    /\ prepIn.counter = "counts"
    /\ CountTokens(prepIn.messages) > prepIn.max_tokens
    /\ Len(AfterPrompt) = 2
    /\ Len(prepIn.messages) = MaxHist
    /\ CountTokens(AfterPrompt) = prepIn.max_tokens

\* C9 as stated: whenever prepare_messages returns, the part after the
\* system prompt is the longest suffix of the history that is within the
\* budget and begins on a user message.
C9_AlwaysLongestUserSuffix ==
    prepOut.kind = "ok"
        => AfterPrompt = LongestUserSuffix(prepIn.messages, prepIn.max_tokens)

\* C9 amended: when the counter does not raise, the part after the system
\* prompt is the longest suffix of the history that is within the budget and
\* begins on a user message (empty when there is none); when the counter
\* raises the unrecognized-content-block error, it is the whole history,
\* whatever role it begins on.
C9_LongestUserSuffixWhenCounted ==
    prepOut.kind = "ok"
        => IF CountingRaises(prepIn)
           THEN AfterPrompt = prepIn.messages
           ELSE /\ AfterPrompt = LongestUserSuffix(prepIn.messages, prepIn.max_tokens)
                /\ AfterPrompt = << >> \/ Head(AfterPrompt).role = "user"

\* The scenario of the spec: [sys, user1, asst1, user2], a budget that only
\* user2 fits.
C9_Witness ==
    /\ prepIn.messages = << [role |-> "system", content |-> "note"],
                            [role |-> "user", content |-> "tell me more"],
                            [role |-> "assistant", content |-> "sure, here it is"],
                            [role |-> "user", content |-> "hi"] >>
    /\ prepIn.max_tokens = 2
    /\ prepIn.counter = "counts"
    /\ prepOut.kind = "ok"
    /\ prepOut.window = << [role |-> "system", content |-> prepIn.system_prompt],
                           [role |-> "user", content |-> "hi"] >>

\* C10 as stated: for every system prompt, once trimming (or its fallback)
\* has produced a list, prepare_messages returns a window whose first
\* message is the system prompt with role system.
C10_SystemPromptFirst ==
    (prepOut.kind # "none" /\ Trimmed(prepIn).kind = "ok")
        => /\ prepOut.kind = "ok"
           /\ Head(prepOut.window) =
                 [role |-> "system", content |-> prepIn.system_prompt]

\* The window made of the system prompt followed by the whole history.
PromptThenHistory ==
    << [role |-> "system", content |-> prepIn.system_prompt] >> \o prepIn.messages

\* C11 as stated, for system prompts that Message accepts: whenever the
\* counter raises, whatever it raises, prepare_messages does not raise and
\* returns the system prompt followed by the whole history in its order.
C11_CountingFailureNeverRaises ==
    (/\ prepOut.kind # "none"
     /\ CountingRaises(prepIn)
     /\ ValidContent(prepIn.system_prompt))
        => (prepOut.kind = "ok" /\ prepOut.window = PromptThenHistory)

\* C11 amended: when the counter raises the ValueError of an unrecognized
\* content block type, that error does not leave prepare_messages, and the
\* list returned is the system prompt followed by the whole history in its
\* order (the only other outcome is the validation error of a system prompt
\* that Message rejects); a ValueError of any other text leaves
\* prepare_messages as raised.
C11_UnrecognizedBlockFallsBack ==
    (prepOut.kind # "none" /\ CountingRaises(prepIn))
        => IF prepIn.counter = "ValueError: Unrecognized content block type"
           THEN /\ prepOut.kind # "ValueError"
                /\ ValidContent(prepIn.system_prompt)
                      => (prepOut.kind = "ok" /\ prepOut.window = PromptThenHistory)
                /\ ~ValidContent(prepIn.system_prompt)
                      => prepOut.kind = "ValidationError"
           ELSE prepOut.kind = "ValueError"

\* A history of full length that is over the budget and begins on a message
\* that is not the user's comes back whole after the counter raised.
C11_Witness ==
    /\ prepOut.kind = "ok"
    /\ prepIn.counter = "ValueError: Unrecognized content block type"
    /\ Len(prepIn.messages) = MaxHist
    /\ CountTokens(prepIn.messages) > prepIn.max_tokens
    /\ Head(prepIn.messages).role = "assistant"
    /\ prepOut.window = PromptThenHistory

----------------------------------------------------------------------------
(* The turn state machine                                                  *)

\* save(threadId, ConversationState): what the store holds afterwards.
Save(fl) == [state |-> fl.phase, messages |-> fl.messages, rounds |-> fl.rounds]

\* How often a tool call was executed, by the record of a thread.
TimesIn(ex, c) ==
    IF \E e \in ex : e.call = c THEN (CHOOSE e \in ex : e.call = c).times ELSE 0

Times(t, c) == TimesIn(executed[t], c)

\* The count of one more execution of a call.
Executed(t, c) ==
    { e \in executed[t] : e.call # c } \cup { [call |-> c, times |-> Times(t, c) + 1] }

Route_AlwaysEnd(tool_calls) == "DONE"

\* The chat node's routing: "if response_message.tool_calls: goto =
\* 'tool_call' else: goto = END".
Route(tool_calls) == IF tool_calls # << >> THEN "AWAITING_TOOL" ELSE "DONE"

\* The requests of the response a flow in AWAITING_TOOL works on: those of
\* the last message of its state.
Pending(fl) == fl.messages[Len(fl.messages)]

ToolResults_DropLast(msgs) ==
    [ n \in 1..(Len(msgs[Len(msgs)].tool_calls) - 1) |->
         ToolMessage(Len(msgs) + n, CallId(msgs[Len(msgs)].id, n)) ]

\* The tool-role messages of a finished tool round: one per request of the
\* response, in the order of the requests.
ToolResults(msgs) ==
    [ n \in 1..Len(msgs[Len(msgs)].tool_calls) |->
         ToolMessage(Len(msgs) + n, CallId(msgs[Len(msgs)].id, n)) ]

LockFree_Always(t) == TRUE

\* The thread-scoped mutual exclusion is not held.
LockFree(t) == lock[t] = "free"

SavedAfter_TerminalOnly(fl) == fl.phase = "DONE"

\* Whether the state is saved after a completed transition: after every one.
SavedAfter(fl) == TRUE

\* The store after the transition that made fl the state of thread t.
Checkpointed(t, fl) ==
    IF SavedAfter(fl) THEN [checkpoint EXCEPT ![t] = Save(fl)] ELSE checkpoint

\* A chat request for a thread begins: the mutual exclusion is acquired and
\* the checkpoint loaded.  A thread that has no checkpoint, or whose last
\* turn ended, starts a turn on the new user message; a checkpoint of a turn
\* that did not end is resumed where it was saved.
BeginTurn(f) ==
    /\ flow[f].phase = "NEW"
    /\ LockFree(ThreadOf(f))
    /\ lock' = [lock EXCEPT ![ThreadOf(f)] = f]
    /\ flow' = [flow EXCEPT ![f] =
          IF checkpoint[ThreadOf(f)].state \in {"NotFound", "DONE"}
          THEN [NoFlow EXCEPT
                  !.phase = "AWAITING_MODEL",
                  !.messages =
                      add_messages(checkpoint[ThreadOf(f)].messages,
                          << UserMessage(Len(checkpoint[ThreadOf(f)].messages) + 1) >>)]
          ELSE [NoFlow EXCEPT
                  !.phase = checkpoint[ThreadOf(f)].state,
                  !.messages = checkpoint[ThreadOf(f)].messages,
                  !.rounds = checkpoint[ThreadOf(f)].rounds,
                  !.resumed = checkpoint[ThreadOf(f)].state]]
    /\ UNCHANGED <<checkpoint, executed, crashes>>
    /\ UNCHANGED <<svcVars, prepIn, prepOut, listed, invocation>>

\* AWAITING_MODEL: the model call returns a response.  It is appended and
\* the turn moves to AWAITING_TOOL or DONE; a response that asks for a tool
\* round beyond the cap fails the turn.  The mutual exclusion is released
\* once the terminal checkpoint is saved, and on the failure.
ModelResponds(f, calls) ==
    /\ flow[f].phase = "AWAITING_MODEL"
    /\ IF calls # << >> /\ flow[f].rounds >= MaxToolRounds
       THEN /\ flow' = [flow EXCEPT ![f] = Failed("TurnBudgetExceeded")]
            /\ lock' = [lock EXCEPT ![ThreadOf(f)] = "free"]
            /\ UNCHANGED checkpoint
       ELSE /\ flow' = [flow EXCEPT
                  ![f].phase = Route(calls),
                  ![f].messages =
                      add_messages(@, << AIMessage(Len(@) + 1, calls) >>),
                  ![f].resumed = IF Route(calls) = "DONE" THEN "no" ELSE @]
            /\ checkpoint' = Checkpointed(ThreadOf(f), flow'[f])
            /\ lock' = IF flow'[f].phase = "DONE"
                       THEN [lock EXCEPT ![ThreadOf(f)] = "free"]
                       ELSE lock
    /\ UNCHANGED <<executed, crashes>>
    /\ UNCHANGED <<svcVars, prepIn, prepOut, listed, invocation>>

\* The failures that end a turn where it stands: the invocation service
\* exhausted its models (AWAITING_MODEL), or the turn's timeout expired.
\* Nothing is saved; the mutual exclusion is released.
TurnFailures(phase) ==
    IF phase = "AWAITING_MODEL" THEN {"AllModelsExhausted", "TurnTimeout"}
    ELSE {"TurnTimeout"}

TurnFails(f, kind) ==
    /\ flow[f].phase \in Running
    /\ kind \in TurnFailures(flow[f].phase)
    /\ flow' = [flow EXCEPT ![f] = Failed(kind)]
    /\ lock' = [lock EXCEPT ![ThreadOf(f)] = "free"]
    /\ UNCHANGED <<checkpoint, executed, crashes>>
    /\ UNCHANGED <<svcVars, prepIn, prepOut, listed, invocation>>

\* AWAITING_TOOL: the next requested tool is resolved by name and executed.
\* An unknown name is fatal to the turn.  With the last request executed,
\* the results are appended as tool-role messages, the turn is back in
\* AWAITING_MODEL and the state is saved.
ExecTool(f) ==
    /\ flow[f].phase = "AWAITING_TOOL"
    /\ IF Pending(flow[f]).tool_calls[flow[f].nDone + 1] \notin tools_by_name
       THEN /\ flow' = [flow EXCEPT ![f] = Failed("NotFound")]
            /\ lock' = [lock EXCEPT ![ThreadOf(f)] = "free"]
            /\ UNCHANGED <<checkpoint, executed>>
       ELSE /\ executed' = [executed EXCEPT ![ThreadOf(f)] =
                   Executed(ThreadOf(f),
                            CallId(Pending(flow[f]).id, flow[f].nDone + 1))]
            /\ IF flow[f].nDone + 1 < Len(Pending(flow[f]).tool_calls)
               THEN /\ flow' = [flow EXCEPT ![f].nDone = @ + 1]
                    /\ UNCHANGED checkpoint
               ELSE /\ flow' = [flow EXCEPT
                          ![f].phase = "AWAITING_MODEL",
                          ![f].messages = add_messages(@, ToolResults(@)),
                          ![f].nDone = 0,
                          ![f].rounds = @ + 1]
                    /\ checkpoint' = Checkpointed(ThreadOf(f), flow'[f])
            /\ UNCHANGED lock
    /\ UNCHANGED crashes
    /\ UNCHANGED <<svcVars, prepIn, prepOut, listed, invocation>>

\* The process crashes while a turn runs and is started again: the state
\* in memory and the mutual exclusions are lost, the store is kept, and the
\* requests that were running come again.
Crash ==
    /\ crashes < MaxCrashes
    /\ \E f \in Flows : flow[f].phase \in Running
    /\ crashes' = crashes + 1
    /\ flow' = [f \in Flows |-> IF flow[f].phase \in Running THEN NoFlow ELSE flow[f]]
    /\ lock' = [t \in Threads |-> "free"]
    /\ UNCHANGED <<checkpoint, executed>>
    /\ UNCHANGED <<svcVars, prepIn, prepOut, listed, invocation>>

InitTurn ==
    /\ settings = [provider |-> "groq", model |-> "moonshotai/kimi-k2-instruct-0905"]
    /\ current_model_index = InitIndex(settings)
    /\ llm = InitLlm(settings)
    /\ pc = "idle"
    /\ req = [provider |-> "", model |-> ""]
    /\ models_tried = 0
    /\ starting_index = 0
    /\ last_error = "none"
    /\ attempt = 0
    /\ rounds = << >>
    /\ allTransient = TRUE
    /\ retriedNT = FALSE
    /\ nSwitch = 0
    /\ nAllFailed = 0
    /\ result = NoResult
    /\ prepIn = NoPrepIn
    /\ prepOut = NoPrepOut
    /\ InitTurnVars

NextTurn ==
    \/ \E f \in Flows : BeginTurn(f)
    \/ \E f \in Flows : \E calls \in Responses : ModelResponds(f, calls)
    \/ \E f \in Flows : \E kind \in {"AllModelsExhausted", "TurnTimeout"} : TurnFails(f, kind)
    \/ \E f \in Flows : ExecTool(f)
    \/ Crash

SpecTurn == InitTurn /\ [][NextTurn]_vars

----------------------------------------------------------------------------
(* Properties of the turn state machine (checked under SpecTurn)           *)

IsPrefix(a, b) == Len(a) <= Len(b) /\ SubSeq(b, 1, Len(a)) = a

\* The messages a step added to the state of flow f.
Added(f) == SubSeq(flow'[f].messages, Len(flow[f].messages) + 1, Len(flow'[f].messages))

\* C12: a step that takes a turn from AWAITING_TOOL back to AWAITING_MODEL
\* has appended to the state, after the response with its k requests,
\* exactly k messages, all of role tool, the n-th answering the n-th request,
\* and nothing else (a state of 4 messages becomes one of 6 for k = 2).
C12_OneToolResultPerRequest ==
    [][\A f \in Flows :
          (flow[f].phase = "AWAITING_TOOL" /\ flow'[f].phase = "AWAITING_MODEL")
             => /\ IsPrefix(flow[f].messages, flow'[f].messages)
                /\ Len(Added(f)) = Len(Pending(flow[f]).tool_calls)
                /\ \A n \in 1..Len(Added(f)) :
                      /\ Added(f)[n].role = "tool"
                      /\ Added(f)[n].tool_call_id = CallId(Pending(flow[f]).id, n)]_vars

\* The 6-message state of the scenario: the fourth message is the response
\* with two requests, the fifth and sixth answer them.
C12_Witness ==
    \E f \in Flows :
       /\ flow[f].phase = "AWAITING_MODEL"
       /\ Len(flow[f].messages) = 6
       /\ Len(flow[f].messages[4].tool_calls) = 2
       /\ flow[f].messages[5].tool_call_id = CallId(flow[f].messages[4].id, 1)
       /\ flow[f].messages[6].tool_call_id = CallId(flow[f].messages[4].id, 2)

\* The last message of the state of flow f after a step.
LastAfter(f) == flow'[f].messages[Len(flow'[f].messages)]

\* C13: a step of a turn in AWAITING_MODEL that changes its messages (the
\* turn neither failing nor being lost in a crash) appends exactly one
\* message, the response, and moves to AWAITING_TOOL when the response carries
\* requests and to DONE when it carries none; AWAITING_MODEL is left for
\* AWAITING_TOOL or DONE in no other way; DONE is never left; DONE is
\* entered from AWAITING_MODEL only.
C13_ResponseRoutesTurn ==
    [][\A f \in Flows :
          /\ (/\ flow[f].phase = "AWAITING_MODEL"
              /\ flow'[f].phase \notin {"NEW", "FAILED"}
              /\ flow'[f].messages # flow[f].messages)
                => /\ flow'[f].messages = Append(flow[f].messages, LastAfter(f))
                   /\ LastAfter(f).role = "assistant"
                   /\ LastAfter(f).tool_calls # << >> => flow'[f].phase = "AWAITING_TOOL"
                   /\ LastAfter(f).tool_calls = << >> => flow'[f].phase = "DONE"
          /\ (flow[f].phase = "AWAITING_MODEL" /\ flow'[f].phase \in {"AWAITING_TOOL", "DONE"})
                => flow'[f].messages # flow[f].messages
          /\ flow[f].phase = "DONE" => flow'[f] = flow[f]
          /\ (flow'[f].phase = "DONE" /\ flow[f].phase # "DONE")
                => flow[f].phase = "AWAITING_MODEL"]_vars

\* A turn that went through a tool round and ended on a plain answer.
C13_Witness ==
    \E f \in Flows :
       /\ flow[f].phase = "DONE"
       /\ flow[f].rounds = MaxToolRounds
       /\ flow[f].messages[Len(flow[f].messages)].tool_calls = << >>
       /\ flow[f].messages[Len(flow[f].messages)].role = "assistant"

\* C14: across every step, the state of a turn that goes on (that neither
\* fails nor is lost in a crash) and the history
\* in the store extend what they were: the sequence before is a prefix of
\* the sequence after; a turn begins on the stored history of its thread.
C14_HistoryAppendOnly ==
    [][/\ \A f \in Flows :
             (flow[f].phase \in Running /\ flow'[f].phase \notin {"NEW", "FAILED"})
                => IsPrefix(flow[f].messages, flow'[f].messages)
       /\ \A f \in Flows :
             (flow[f].phase = "NEW" /\ flow'[f].phase # "NEW")
                => IsPrefix(checkpoint[ThreadOf(f)].messages, flow'[f].messages)
       /\ \A t \in Threads :
             IsPrefix(checkpoint[t].messages, checkpoint'[t].messages)]_vars

\* A second turn of a thread, begun on the saved history of the first, has
\* completed a tool round.
C14_Witness ==
    \E f \in Flows :
       /\ flow[f].phase = "AWAITING_MODEL"
       /\ flow[f].rounds = 1
       /\ Len(flow[f].messages) > 4
       /\ flow[f].messages[1].role = "user"
       /\ flow[f].messages[2].role = "assistant"
       /\ flow[f].messages[3].role = "user"
       /\ checkpoint[ThreadOf(f)].messages = flow[f].messages

\* Whether the result of a tool call is among the messages.
HasResult(msgs, c) == \E i \in 1..Len(msgs) : msgs[i].tool_call_id = c

\* A step in which flow f loads a checkpoint of a turn that did not end.
Resumes(f) ==
    /\ flow[f].phase = "NEW" /\ flow'[f].phase # "NEW"
    /\ checkpoint[ThreadOf(f)].state \notin {"NotFound", "DONE"}

\* The process crashed in the middle of a tool round of thread t: a tool of
\* the round was executed, its result is not in the store, and no turn of
\* the thread ended in failure.
CrashedMidToolRound(t) ==
    /\ crashes > 0
    /\ \A g \in Flows : ThreadOf(g) = t => flow[g].phase # "FAILED"
    /\ \E e \in executed[t] : ~HasResult(checkpoint[t].messages, e.call)

C16_ThreadTurnsExclusive ==
    \A f, g \in Flows :
       (f # g /\ ThreadOf(f) = ThreadOf(g) /\ flow[f].phase \in Running)
          => /\ lock[ThreadOf(f)] = f
             /\ flow[g].phase \in {"NEW", "FAILED", "DONE"}
             /\ flow[g].phase = "DONE"
                   => IsPrefix(flow[g].messages, checkpoint[ThreadOf(f)].messages)

\* A second turn of a thread runs after the first ended, while a turn of
\* another thread runs beside it.
C16_Witness ==
    \E f, g, h \in Flows :
       /\ f # g /\ ThreadOf(f) = ThreadOf(g) /\ ThreadOf(h) # ThreadOf(f)
       /\ flow[f].phase = "DONE"
       /\ flow[g].phase = "AWAITING_TOOL"
       /\ flow[h].phase = "AWAITING_TOOL"
       /\ Len(flow[g].messages) > Len(flow[f].messages)

----------------------------------------------------------------------------
(* The registry on bounded inputs                                          *)

\* The providers in the order of the LLMS dict.
ProviderOrder == <<"groq", "openai", "gemini">>

\* The keys of every entry of LLMS.
EntryKeys == {"name", "llm", "extra_details"}

\* The key get_all_names subscripts an entry with when no provider is given
\* (line 186: e["names"]).
QualifiedKey == "names"

\* f"{provider}/{name}" for the entries of one provider, in order.
Qualify(p) == [ i \in 1..Len(LLMS[p]) |-> p \o "/" \o LLMS[p][i] ]

\* The list the loop of lines 183-186 builds over the providers from
\* position i on.
RECURSIVE QualifiedFrom(_)
QualifiedFrom(i) ==
    IF i > Len(ProviderOrder) THEN << >>
    ELSE Qualify(ProviderOrder[i]) \o QualifiedFrom(i + 1)

\* LLMRegistry.get_all_names(llm_provider): "if llm_provider:" takes the
\* provider's names; None or the empty string runs the loop, whose first
\* entry raises KeyError unless the key subscripted is a key of the entry.
GetAllNames(p) ==
    IF p # "" THEN [kind |-> "ok", names |-> get_all_names(p)]
    ELSE IF QualifiedKey \notin EntryKeys /\ \E q \in Keys : Len(LLMS[q]) > 0
    THEN [kind |-> "KeyError", names |-> << >>]
    ELSE [kind |-> "ok", names |-> QualifiedFrom(1)]

\* The provider strings and model names the registry is asked for; the
\* empty provider stands for the omitted one.
RegistryProviders == {"", "groq", "openai", "gemini", "azure", "Groq"}
RegistryModels ==
    { LLMS[p][i] : p \in {"groq"}, i \in 1..Len(LLMS["groq"]) }
       \cup { LLMS[p][i] : p \in {"openai"}, i \in 1..Len(LLMS["openai"]) }
       \cup { "no-such-model" }

InitRegistry ==
    /\ settings = [provider |-> "groq", model |-> "moonshotai/kimi-k2-instruct-0905"]
    /\ current_model_index = InitIndex(settings)
    /\ llm = InitLlm(settings)
    /\ pc = "idle"
    /\ req \in [provider : RegistryProviders, model : RegistryModels]
    /\ models_tried = 0
    /\ starting_index = 0
    /\ last_error = "none"
    /\ attempt = 0
    /\ rounds = << >>
    /\ allTransient = TRUE
    /\ retriedNT = FALSE
    /\ nSwitch = 0
    /\ nAllFailed = 0
    /\ result = NoResult
    /\ prepIn = NoPrepIn
    /\ prepOut = NoPrepOut
    /\ InitTurnVars

\* One call LLMRegistry.get(req.provider, req.model).
RegistryGet ==
    /\ result.kind = "none"
    /\ result' = [NoResult EXCEPT !.kind = get(req.provider, req.model).kind,
                                  !.by = get(req.provider, req.model).llm]
    /\ UNCHANGED <<settings, current_model_index, llm, pc, req, models_tried,
                   starting_index, last_error, attempt, rounds, allTransient,
                   retriedNT, nSwitch, nAllFailed, prepIn, prepOut, listed>>
    /\ UNCHANGED <<turnVars, invocation>>

\* One call LLMRegistry.get_all_names(req.provider), or get_all_names()
\* when req.provider is empty.
RegistryGetAllNames ==
    /\ listed.kind = "none"
    /\ listed' = GetAllNames(req.provider)
    /\ UNCHANGED <<svcVars, prepIn, prepOut>>
    /\ UNCHANGED <<turnVars, invocation>>

NextRegistry == RegistryGet \/ RegistryGetAllNames

SpecRegistry == InitRegistry /\ [][NextRegistry]_vars

----------------------------------------------------------------------------
(* Properties of the registry (checked under SpecRegistry)                 *)

\* Whether the registry holds a model under the name in the provider's
\* sequence, the provider string compared as the registry's check compares
\* it (case-insensitively).
Registered(p, name) ==
    /\ Lower(p) \in Keys
    /\ \E i \in 1..Len(LLMS[Lower(p)]) : LLMS[Lower(p)][i] = name

\* C18 as stated: get returns the descriptor registered under the name in
\* the provider's sequence, or fails with the not-found ValueError; it fails
\* exactly when the provider is unknown or the name is absent, and with no
\* other kind of error.
C18_GetDescriptorOrNotFound ==
    result.kind # "none"
        => /\ result.kind \in {"ok", "ValueError"}
           /\ result.kind = "ValueError" <=> ~Registered(req.provider, req.model)
           /\ result.kind = "ok"
                 => (result.by.name = req.model /\ result.by.prov = Lower(req.provider))

\* The fully-qualified names of the registered models, by provider and then
\* by position.
AllQualifiedNames ==
    << "groq/qwen/qwen3-32b", "groq/moonshotai/kimi-k2-instruct-0905",
       "groq/openai/gpt-oss-120b", "groq/openai/gpt-oss-20b",
       "openai/gpt-5-mini", "openai/gpt-4o", "openai/gpt-4o-mini" >>

\* C19 as stated: with a provider, get_all_names returns that provider's
\* names in registry order; without one, it returns the fully-qualified
\* name of every registered model, by provider and then by position.
C19_AllNamesInRegistryOrder ==
    listed.kind # "none"
        => /\ listed.kind = "ok"
           /\ (req.provider # "" /\ Lower(req.provider) \in Keys)
                 => listed.names = LLMS[Lower(req.provider)]
           /\ req.provider = "" => listed.names = AllQualifiedNames

----------------------------------------------------------------------------
(* Construction and stickiness of the invocation service (under Spec)      *)

\* Whether two handles are clients of the same model.
SameModel(a, b) == a.prov = b.prov /\ a.name = b.name

C20_SwitchIsCircularAndSticky ==
    [][/\ nSwitch' = nSwitch + 1
             => /\ current_model_index' = (current_model_index + 1) % total_models
                /\ llm' = ConfiguredLlm(current_model_index')
       /\ (pc = "await" /\ pc' = "done" /\ nSwitch' = nSwitch)
             => (current_model_index' = current_model_index /\ llm' = llm)
       /\ (pc = "done" /\ pc' = "await" /\ ~HasOverride(req'.provider, req'.model))
             => /\ rounds'[1].model = llm
                /\ current_model_index' = current_model_index
                /\ result.kind = "response" => SameModel(rounds'[1].model, result.by)]_vars

\* An invocation without override returned the response of the model it
\* fell back to; index and handle stay on that model.
C20_Witness ==
    /\ Done /\ result.kind = "response"
    /\ ~HasOverride(req.provider, req.model)
    /\ nSwitch = 1
    /\ current_model_index = (starting_index + 1) % total_models
    /\ current_model_index # InitIndex(settings)
    /\ llm = result.by

\* C21 as stated: at every point between invocations the current index is a
\* position of the configured provider's sequence, the live handle is the
\* client of the entry at that position of that sequence, and an invocation
\* that has finished returned a response or failed with NotFound
\* (ValueError) or AllModelsExhausted (RuntimeError) and nothing else.
C21_IndexAndHandleOfConfiguredProvider ==
    pc \in {"idle", "done"}
        => /\ current_model_index \in 0..(total_models - 1)
           /\ SameModel(llm, ConfiguredLlm(current_model_index))
           /\ result.kind \in {"none", "response", "ValueError", "RuntimeError"}

\* C23 as stated, for the step that issues an attempt: when the handle of
\* the service has tools bound and call() starts a _call_with_retry (its
\* first, or the one after a fallback switch), each attempt logged for it is
\* made on a handle with tools bound.
C23_AttemptsOnToolBoundHandle ==
    [][(llm.tools /\ pc' = "await" /\ rounds' # rounds)
          => rounds'[Len(rounds')].model.tools]_vars

----------------------------------------------------------------------------
(* Concurrent invocations of the shared LLMService                         *)

\* The service variables a concurrent call() neither reads nor writes here:
\* the locals and the log of the single-caller actions.
singleCallVars == <<pc, req, models_tried, starting_index, last_error, attempt,
                    rounds, allTransient, retriedNT, nSwitch, nAllFailed, result>>

\* The names of the configured provider's models.
ConfiguredNames == {LLMS[settings.provider][i] : i \in 1..total_models}

\* call() of caller c without override, lines 152-161: the locals and the
\* first pass of the while loop up to the awaited self._llm.ainvoke. Each
\* caller invokes call() once.
ConcCall(c) ==
    /\ invocation[c].pc = "idle"
    /\ invocation' = [invocation EXCEPT ![c] =
           [pc |-> "await", models_tried |-> 0, attempt |-> 1,
            called |-> << llm.name >>, attempted |-> {llm.name},
            failed |-> NoFailed, result |-> "none"]]
    /\ UNCHANGED <<settings, current_model_index, llm, singleCallVars,
                   prepIn, prepOut, turnVars, listed>>

\* The awaited ainvoke of caller c returns; its call() returns the response.
ConcAttemptOk(c) ==
    /\ invocation[c].pc = "await"
    /\ invocation' = [invocation EXCEPT ![c].pc = "done",
                                        ![c].result = "response"]
    /\ UNCHANGED <<settings, current_model_index, llm, singleCallVars,
                   prepIn, prepOut, turnVars, listed>>

\* The awaited ainvoke of caller c raised, tenacity slept, and
\* _call_with_retry runs again: line 102 reads self._llm as it is now.
ConcAttemptRetry(c, kind) ==
    /\ invocation[c].pc = "await"
    /\ Retries(kind, invocation[c].attempt)
    /\ invocation' = [invocation EXCEPT
           ![c].attempt = @ + 1,
           ![c].called = Append(@, llm.name),
           ![c].attempted = @ \cup {llm.name}]
    /\ UNCHANGED <<settings, current_model_index, llm, singleCallVars,
                   prepIn, prepOut, turnVars, listed>>

\* _call_with_retry of caller c re-raises and the except block of its call()
\* runs (lines 164-187): line 168 names the failed model by the shared index
\* as it is now; then the switch, the loop test and the next
\* _call_with_retry up to its awaited ainvoke.
ConcAttemptRaise(c, kind) ==
    LET me == invocation[c]
        tried == me.models_tried + 1
        failed == [called |-> me.called[Len(me.called)],
                   recorded |-> LLMS[settings.provider][current_model_index + 1]]
        exhausted == [me EXCEPT !.pc = "done", !.result = "RuntimeError",
                                !.models_tried = tried, !.failed = failed]
        next == EntryLlm(settings.provider, NextIndex(current_model_index))
    IN  /\ me.pc = "await"
        /\ ~Retries(kind, me.attempt)
        /\ IF AllTried(tried)
           THEN /\ invocation' = [invocation EXCEPT ![c] = exhausted]
                /\ UNCHANGED <<current_model_index, llm>>
           ELSE /\ current_model_index' = NextIndex(current_model_index)
                /\ llm' = next
                /\ invocation' = [invocation EXCEPT ![c] =
                       IF LoopGuard(tried)
                       THEN [me EXCEPT !.models_tried = tried,
                                       !.failed = failed,
                                       !.attempt = 1,
                                       !.called = << next.name >>,
                                       !.attempted = @ \cup {next.name}]
                       ELSE exhausted]
        /\ UNCHANGED <<settings, singleCallVars, prepIn, prepOut, turnVars,
                       listed>>

InitConc == Init

NextConc ==
    \/ \E c \in Callers : ConcCall(c)
    \/ \E c \in Callers : ConcAttemptOk(c)
    \/ \E c \in Callers, kind \in ErrorKinds : ConcAttemptRetry(c, kind)
    \/ \E c \in Callers, kind \in ErrorKinds : ConcAttemptRaise(c, kind)

SpecConc == InitConc /\ [][NextConc]_vars

\* C22 as stated: with invocations interleaving at the awaited model calls,
\* an invocation that failed with the all-models-exhausted RuntimeError has
\* called each of the configured provider's N models at least once, all
\* attempts of one _call_with_retry go to the same model, and the model the
\* except block records as failed is the model whose attempt raised.
C22_InterleavedInvocationsKeepTheirModel ==
    \A c \in Callers :
        /\ (invocation[c].pc = "done" /\ invocation[c].result = "RuntimeError")
              => invocation[c].attempted = ConfiguredNames
        /\ \A k \in 1..Len(invocation[c].called) :
              invocation[c].called[k] = invocation[c].called[1]
        /\ invocation[c].failed.called = invocation[c].failed.recorded

=============================================================================
